---- MODULE Spec2Model ----
(***************************************************************************)
(* Model of glue/ligolw/array.py: the Array / ArrayStream codec of the     *)
(* LIGO Light Weight XML library.                                          *)
(*                                                                         *)
(* Text is a sequence of one-character strings.  A Python int is the       *)
(* record [ip, fp] with fp empty, a Python float the record [neg, m, e,    *)
(* sp] of the IEEE double it holds.                                        *)
(***************************************************************************)
EXTENDS Integers, Sequences, FiniteSets, TLC

----------------------------------------------------------------------------
(* Bounds of the model *)

\* longest dimension list of a node
MaxRank == 2
\* largest size of one dimension
MaxDim == 2
\* most elements of an array handed to from_array or parsed from free text
MaxCells == 2
\* most elements of an in-memory float array handed to from_array
MaxFloatCells == 1
\* longest stream text pushed into a node that is parsed from free text
MaxText == 5
\* longest dimension list of a stand-alone _IndexIter
MaxIterRank == 3
\* largest size of one dimension of a stand-alone _IndexIter
MaxIterDim == 3
\* most StopIteration signals counted on a stand-alone _IndexIter
MaxStops == 2

----------------------------------------------------------------------------
(* Python values *)

\* Python's None, for the node attributes that hold either None or an object
None == [none |-> TRUE]

RECURSIVE Product(_)
\* product of the entries of a shape (1 for the empty shape)
Product(s) == IF s = <<>> THEN 1 ELSE Head(s) * Product(Tail(s))

RECURSIVE Reverse(_)
\* list.reverse()
Reverse(s) == IF s = <<>> THEN <<>> ELSE Reverse(Tail(s)) \o <<Head(s)>>

RECURSIVE MaxEntry(_)
\* the largest entry of a shape
MaxEntry(s) ==
    IF s = <<>> THEN 0
    ELSE IF Head(s) > MaxEntry(Tail(s)) THEN Head(s) ELSE MaxEntry(Tail(s))

\* the valid index tuples of an array of the given shape
IndexSet(shape) ==
    IF shape = <<>> THEN {<<>>}
    ELSE {i \in [1..Len(shape) -> 0..MaxEntry(shape)] :
            \A p \in 1..Len(shape) : i[p] < shape[p]}

----------------------------------------------------------------------------
(* _IndexIter *)

\* a faulty __init__ that takes an empty shape for an empty array
IndexIterInitEmptyStops(shape) ==
    [shape |-> shape,
     index |-> [p \in 1..Len(shape) |-> 0],
     stop  |-> shape = <<>> \/ \E p \in 1..Len(shape) : shape[p] = 0]

\* _IndexIter.__init__
IndexIterInit(shape) ==
    [shape |-> shape,
     index |-> [p \in 1..Len(shape) |-> 0],
     stop  |-> \E p \in 1..Len(shape) : shape[p] = 0]

RECURSIVE AdvanceSlowestFirst(_, _, _)
\* a faulty for/else loop that carries from the last position down
AdvanceSlowestFirst(index, shape, p) ==
    LET q == Len(index) + 1 - p
    IN IF p > Len(index) THEN [index |-> index, stop |-> TRUE]
       ELSE IF index[q] + 1 < shape[q]
            THEN [index |-> [index EXCEPT ![q] = index[q] + 1], stop |-> FALSE]
            ELSE AdvanceSlowestFirst([index EXCEPT ![q] = 0], shape, p + 1)

RECURSIVE AdvanceNoReset(_, _, _)
\* a faulty for/else loop that carries without setting the position back to 0
AdvanceNoReset(index, shape, p) ==
    IF p > Len(index) THEN [index |-> index, stop |-> TRUE]
    ELSE IF index[p] + 1 < shape[p]
         THEN [index |-> [index EXCEPT ![p] = index[p] + 1], stop |-> FALSE]
         ELSE AdvanceNoReset([index EXCEPT ![p] = index[p] + 1], shape, p + 1)

RECURSIVE Advance(_, _, _)
\* the for/else loop of _IndexIter.next, from position p on
Advance(index, shape, p) ==
    IF p > Len(index) THEN [index |-> index, stop |-> TRUE]
    ELSE IF index[p] + 1 < shape[p]
         THEN [index |-> [index EXCEPT ![p] = index[p] + 1], stop |-> FALSE]
         ELSE Advance([index EXCEPT ![p] = 0], shape, p + 1)

\* a faulty next that forgets the exhaustion once it has signalled it
IndexIterNextRearms(it) ==
    IF it.stop
    THEN [it |-> [it EXCEPT !.stop = FALSE], raised |-> TRUE, result |-> <<>>]
    ELSE LET a == Advance(it.index, it.shape, 1)
         IN [it     |-> [shape |-> it.shape, index |-> a.index, stop |-> a.stop],
             raised |-> FALSE,
             result |-> it.index]

\* _IndexIter.next: raised is the StopIteration signal, result the index
IndexIterNext(it) ==
    IF it.stop
    THEN [it |-> it, raised |-> TRUE, result |-> <<>>]
    ELSE LET a == Advance(it.index, it.shape, 1)
         IN [it     |-> [shape |-> it.shape, index |-> a.index, stop |-> a.stop],
             raised |-> FALSE,
             result |-> it.index]

RECURSIVE AdvanceBy(_, _)
\* a sequencer after k more next() calls
AdvanceBy(ix, k) == IF k = 0 THEN ix ELSE AdvanceBy(IndexIterNext(ix).it, k - 1)

----------------------------------------------------------------------------
(* Text: "%s" formatting of Python scalars and the casts int(), float() *)

DigitChar == <<"0", "1", "2", "3", "4", "5", "6", "7", "8", "9">>

IsDigit(c) == \E d \in 1..10 : DigitChar[d] = c

DigitVal(c) == (CHOOSE d \in 1..10 : DigitChar[d] = c) - 1

(* The text of a document is unicode text, as the XML parser delivers it;
   the characters here are those up to U+00FF.  int() and float() of unicode
   text take every character with the white space property for a blank
   before they read the number, and the ASCII digits are the only characters
   up to U+00FF with a decimal digit value. *)

\* The characters with the white space property: U+0009 to U+000D, U+001C to
\* U+001F, U+0020, U+0085 and U+00A0.
WhiteSpace ==
    {"\t", "\n", "", "\f", "\r", "", "", "", "", " ", "", " "}

\* isspace() of one character
IsSpace(c) == c \in WhiteSpace

\* str.lstrip() and str.rstrip()
LStrip(cs) ==
    IF cs = <<>> \/ ~IsSpace(cs[1]) THEN cs
    ELSE IF \A k \in 1..Len(cs) : IsSpace(cs[k]) THEN <<>>
    ELSE SubSeq(cs, CHOOSE k \in 1..Len(cs) :
                        ~IsSpace(cs[k]) /\ \A j \in 1..(k - 1) : IsSpace(cs[j]),
                Len(cs))

RStrip(cs) ==
    IF cs = <<>> \/ ~IsSpace(cs[Len(cs)]) THEN cs
    ELSE IF \A k \in 1..Len(cs) : IsSpace(cs[k]) THEN <<>>
    ELSE SubSeq(cs, 1, CHOOSE k \in 1..Len(cs) :
                           ~IsSpace(cs[k]) /\ \A j \in (k + 1)..Len(cs) : IsSpace(cs[j]))

\* str.strip()
Strip(cs) == RStrip(LStrip(cs))

RECURSIVE NatDigits(_)
\* the decimal digits of a natural number, most significant first
NatDigits(n) == IF n < 10 THEN <<n>> ELSE NatDigits(n \div 10) \o <<n % 10>>

\* the characters of a sequence of digits
DigitChars(ds) == [k \in 1..Len(ds) |-> DigitChar[ds[k] + 1]]

\* "%s" % n for a Python int
FormatInt(n) ==
    IF n < 0 THEN <<"-">> \o DigitChars(NatDigits(0 - n)) ELSE DigitChars(NatDigits(n))

\* without the trailing zeros
StripTrailingZeros(ds) ==
    IF ds = <<>> \/ ds[Len(ds)] /= 0 THEN ds
    ELSE IF \A k \in 1..Len(ds) : ds[k] = 0 THEN <<>>
    ELSE SubSeq(ds, 1, CHOOSE k \in 1..Len(ds) :
                           ds[k] /= 0 /\ \A j \in (k + 1)..Len(ds) : ds[j] = 0)

(* Naturals of any size, for the 53-bit significand of a Python float and
   its exact decimal expansion: a sequence of decimal digits, most
   significant first, without leading zeros; <<>> is 0.  The operators
   split their argument in halves and evaluate one half before they start
   on the other, which keeps the evaluation shallow. *)

\* y, evaluated after x
After(x, y) == IF x = x THEN y ELSE y

\* without the leading zeros
BTrim(ds) ==
    IF ds = <<>> \/ ds[1] /= 0 THEN ds
    ELSE IF \A k \in 1..Len(ds) : ds[k] = 0 THEN <<>>
    ELSE SubSeq(ds, CHOOSE k \in 1..Len(ds) :
                        ds[k] /= 0 /\ \A j \in 1..(k - 1) : ds[j] = 0,
                Len(ds))

RECURSIVE MulAddFixed(_, _, _)
\* ds * k + c as Len(ds) digits d and the carry c out of them
MulAddFixed(ds, k, c) ==
    IF Len(ds) = 0 THEN [d |-> <<>>, c |-> c]
    ELSE IF Len(ds) = 1
    THEN [d |-> <<(ds[1] * k + c) % 10>>, c |-> (ds[1] * k + c) \div 10]
    ELSE LET h  == Len(ds) \div 2
             lo == MulAddFixed(SubSeq(ds, h + 1, Len(ds)), k, c)
             hi == MulAddFixed(SubSeq(ds, 1, h), k, lo.c)
         IN After(lo, [d |-> hi.d \o lo.d, c |-> hi.c])

\* ds * k + c, for 0 <= c <= k <= 2^27
BMulAdd(ds, k, c) ==
    LET r == MulAddFixed(ds, k, c) IN BTrim(NatDigits(r.c) \o r.d)

\* ds * 2: a digit takes a carry when the digit after it is 5 or more
BDouble(ds) ==
    (IF ds /= <<>> /\ ds[1] >= 5 THEN <<1>> ELSE <<>>)
    \o [i \in 1..Len(ds) |->
            (2 * ds[i] + (IF i < Len(ds) /\ ds[i + 1] >= 5 THEN 1 ELSE 0)) % 10]

BInc(ds) == BMulAdd(ds, 1, 1)

RECURSIVE DivFixed(_, _, _)
\* long division of ds by k with the remainder r carried in
DivFixed(ds, k, r) ==
    IF Len(ds) = 0 THEN [q |-> <<>>, r |-> r]
    ELSE IF Len(ds) = 1
    THEN [q |-> <<(r * 10 + ds[1]) \div k>>, r |-> (r * 10 + ds[1]) % k]
    ELSE LET h  == Len(ds) \div 2
             hi == DivFixed(SubSeq(ds, 1, h), k, r)
             lo == DivFixed(SubSeq(ds, h + 1, Len(ds)), k, hi.r)
         IN After(hi, [q |-> hi.q \o lo.q, r |-> lo.r])

\* ds divided by k, for 1 <= k <= 2^27: quotient and remainder
BDivMod(ds, k) == LET r == DivFixed(ds, k, 0) IN [q |-> BTrim(r.q), r |-> r.r]

\* a < b
BLess(a, b) ==
    \/ Len(a) < Len(b)
    \/ /\ Len(a) = Len(b)
       /\ \E k \in 1..Len(a) : a[k] < b[k] /\ \A j \in 1..(k - 1) : a[j] = b[j]

BOdd(ds) == ds /= <<>> /\ ds[Len(ds)] % 2 = 1

ZeroDigits(n) == [k \in 1..n |-> 0]

RECURSIVE BTimesPow2(_, _)
\* ds * 2^n
BTimesPow2(ds, n) ==
    IF n <= 27 THEN BMulAdd(ds, 2 ^ n, 0)
    ELSE LET half == BTimesPow2(ds, n \div 2)
         IN After(half, BTimesPow2(half, n - n \div 2))

RECURSIVE BTimesPow5(_, _)
\* ds * 5^n
BTimesPow5(ds, n) ==
    IF n <= 11 THEN BMulAdd(ds, 5 ^ n, 0)
    ELSE LET half == BTimesPow5(ds, n \div 2)
         IN After(half, BTimesPow5(half, n - n \div 2))

RECURSIVE BDivPow2(_, _)
\* floor(ds / 2^n) and whether the division left no remainder
BDivPow2(ds, n) ==
    IF n <= 27
    THEN LET r == BDivMod(ds, 2 ^ n) IN [q |-> r.q, exact |-> r.r = 0]
    ELSE LET a == BDivPow2(ds, n \div 2)
             b == BDivPow2(a.q, n - n \div 2)
         IN After(a, [q |-> b.q, exact |-> a.exact /\ b.exact])

\* 2^52 and 2^53
Pow52 == <<4, 5, 0, 3, 5, 9, 9, 6, 2, 7, 3, 7, 0, 4, 9, 6>>
Pow53 == <<9, 0, 0, 7, 1, 9, 9, 2, 5, 4, 7, 4, 0, 9, 9, 2>>

(* A Python float is the IEEE double it holds: the record [neg, m, e, sp]
   stands for (-1)^neg * m * 2^e with m odd, or m = <<>> and e = 0 for
   zero; sp is "inf" or "nan" for the values that are no numbers and ""
   otherwise.  A Python int is the record [ip, fp] with fp = <<>>. *)

RECURSIVE NormalizeBy(_, _)
\* x.m * 2^x.e with the factors 2^c of x.m moved into x.e
NormalizeBy(x, c) ==
    LET r == BDivMod(x.m, 2 ^ c)
    IN IF x.m /= <<>> /\ r.r = 0 THEN NormalizeBy([m |-> r.q, e |-> x.e + c], c)
       ELSE x

\* m * 2^e with the factors 2 of m moved into e
Normalize(m, e) ==
    IF m = <<>> THEN [m |-> <<>>, e |-> 0]
    ELSE IF BOdd(m) THEN [m |-> m, e |-> e]
    ELSE NormalizeBy(NormalizeBy(NormalizeBy([m |-> m, e |-> e], 16), 4), 1)

WithSign(neg, n) == [neg |-> neg, m |-> n.m, e |-> n.e, sp |-> ""]

Finite(neg, m, e) == WithSign(neg, Normalize(m, e))

FloatZero(neg) == [neg |-> neg, m |-> <<>>, e |-> 0, sp |-> ""]

Inf(neg) == [neg |-> neg, m |-> <<>>, e |-> 0, sp |-> "inf"]

NaN == [neg |-> FALSE, m |-> <<>>, e |-> 0, sp |-> "nan"]

\* floor(A / 10^k) and A mod 10^k
Quot(A, k) == IF Len(A) <= k THEN <<>> ELSE SubSeq(A, 1, Len(A) - k)
Rem(A, k) == BTrim(IF Len(A) <= k THEN A ELSE SubSeq(A, Len(A) - k + 1, Len(A)))

RECURSIVE ScaleUp(_, _, _, _)
\* A doubled until it is T or more, counting from E up to hi at most
ScaleUp(A, T, E, hi) ==
    IF E = hi \/ ~BLess(A, T) THEN [A |-> A, E |-> E]
    ELSE LET A2 == BDouble(A) IN After(A2, ScaleUp(A2, T, E + 1, hi))

RECURSIVE ScaleDown(_, _, _)
\* the least j in lo..hi with q < 2^(53 + j), and hi when there is none
ScaleDown(q, lo, hi) ==
    IF lo = hi THEN lo
    ELSE IF BLess(q, BTimesPow2(Pow53, (lo + hi) \div 2))
    THEN ScaleDown(q, lo, (lo + hi) \div 2)
    ELSE ScaleDown(q, (lo + hi) \div 2 + 1, hi)

\* q, or q + 1 when more, times 2^e
RoundTo(neg, q, more, e) == Finite(neg, IF more THEN BInc(q) ELSE q, e)

\* the quotient q of a division by tenk rounded on twice its remainder r2
RoundQuot(neg, q, r2, tenk, e) ==
    RoundTo(neg, q, BLess(tenk, r2) \/ (r2 = tenk /\ BOdd(q)), e)

\* a number of doublings that A / 10^k needs at least to reach 2^52, from
\* the digit counts: 2^52 * 10^k has k + 16 digits, and a factor 10 is more
\* than 3.321 doublings
FirstDoubling(A, k) ==
    IF k + 16 - Len(A) <= 1 THEN 0
    ELSE IF ((k + 15 - Len(A)) * 3321) \div 1000 > 1074 THEN 1074
    ELSE ((k + 15 - Len(A)) * 3321) \div 1000

\* A / 10^k below 2^53: A is doubled until the quotient has 53 bits, or
\* 1074 times for a subnormal, and the quotient is rounded on twice the
\* remainder against 10^k
RoundScaled(neg, su, k) ==
    RoundQuot(neg, Quot(su.A, k), BDouble(Rem(su.A, k)), <<1>> \o ZeroDigits(k), 0 - su.E)

ScaleFrom(A, k, E0) == ScaleUp(BTimesPow2(A, E0), Pow52 \o ZeroDigits(k), E0, 1074)

RoundScaledUp(neg, A, k) == RoundScaled(neg, ScaleFrom(A, k, FirstDoubling(A, k)), k)

\* sig * 2^j, infinity from 2^1024 up
Overflowing(neg, sig, j) ==
    IF j > 971 \/ (j = 971 /\ sig = Pow53) THEN Inf(neg) ELSE Finite(neg, sig, j)

\* q rounded on the bit rbit cut off last and on whether anything was cut
\* off before it
RoundHalf(neg, q, rbit, sticky, j) ==
    Overflowing(neg, IF rbit /\ (sticky \/ BOdd(q)) THEN BInc(q) ELSE q, j)

\* q1 holds the quotient with one bit more than the 53 that are kept
RoundCut(neg, q1, inexact, j) ==
    RoundHalf(neg, BDivMod(q1.q, 2).q, BOdd(q1.q), ~q1.exact \/ inexact, j)

\* the number of bits to cut off q for 53 to remain, searched between the
\* bounds its digit count gives
FirstCut(q) ==
    ScaleDown(q,
              IF ((Len(q) - 1) * 3321) \div 1000 - 53 < 1 THEN 1
              ELSE ((Len(q) - 1) * 3321) \div 1000 - 53,
              IF (Len(q) * 3322) \div 1000 - 51 < 1 THEN 1
              ELSE (Len(q) * 3322) \div 1000 - 51)

CutAt(neg, q, inexact, j) == RoundCut(neg, BDivPow2(q, j - 1), inexact, j)

\* A / 10^k from 2^53 up: the quotient is cut to 53 bits and rounded on
\* the bits cut off
RoundScaledDown(neg, A, k) ==
    CutAt(neg, Quot(A, k), Rem(A, k) /= <<>>, FirstCut(Quot(A, k)))

\* the double nearest to A / 10^k, ties to the even significand
ToDouble(neg, A, k) ==
    IF A = <<>> THEN FloatZero(neg)
    ELSE IF BLess(Quot(A, k), Pow53) THEN RoundScaledUp(neg, A, k)
    ELSE RoundScaledDown(neg, A, k)

\* the double nearest to N * 10^x
DecimalToDouble(neg, N, x) ==
    IF N = <<>> \/ Len(N) + x < 0 - 330 THEN FloatZero(neg)
    ELSE IF Len(N) + x > 310 THEN Inf(neg)
    ELSE ToDouble(neg, IF x >= 0 THEN N \o ZeroDigits(x) ELSE N, IF x >= 0 THEN 0 ELSE 0 - x)

\* significant digits kept by str() of a Python 2 float
StrPrecision == 12

\* the first prec digits of D, rounded on the digits after them
RoundHead(head, tail) ==
    IF \/ tail[1] > 5
       \/ /\ tail[1] = 5
          /\ \/ \E k \in 2..Len(tail) : tail[k] /= 0
             \/ head[Len(head)] % 2 = 1
    THEN BInc(head) ELSE head

\* the digits after the kept ones are exactly half of the last kept place
ExactHalf(tail) == tail[1] = 5 /\ \A k \in 2..Len(tail) : tail[k] = 0

\* the highest power of ten of an integer that the float to text conversion
\* of Python 2.7 writes by dividing it digit by digit (Int_max of dtoa.c)
IntMax == 14

(* The conversion of Python 2.7 takes the trailing zeros off the digits it
   produces, with one exception.  An integer below 10^15 whose digits after
   the kept ones are exactly half of the last kept place is written by its
   digit by digit division, and when the last kept digit is even, so that
   the digits are not stepped up, the division leaves at the last digit
   with the zeros before it in place: 1000000000005.0 has the digits
   100000000000 and is written 1.00000000000e+12.  Every other number is
   decided before (the remainder is clear of one half) or after it (the
   general conversion), and both take the zeros off.  f = 0 is the integer:
   a float that is no integer has digits after the point. *)
KeepsZeros(D, f, prec) ==
    /\ f = 0
    /\ Len(D) > prec
    /\ Len(D) <= IntMax + 1
    /\ ExactHalf(SubSeq(D, prec + 1, Len(D)))
    /\ D[prec] % 2 = 0

\* r is the rounded head: one digit more than prec when the rounding
\* carried into a new power of ten; keep tells that its trailing zeros stay
Rounded(r, X, prec, keep) ==
    IF Len(r) > prec THEN [digits |-> <<1>>, exp |-> X + 1]
    ELSE [digits |-> IF keep THEN r ELSE StripTrailingZeros(r), exp |-> X]

\* the number D / 10^f rounded to prec significant digits, ties to even
RoundDigits(D, f, prec) ==
    IF Len(D) <= prec THEN [digits |-> StripTrailingZeros(D), exp |-> Len(D) - 1 - f]
    ELSE Rounded(RoundHead(SubSeq(D, 1, prec), SubSeq(D, prec + 1, Len(D))),
                 Len(D) - 1 - f, prec, KeepsZeros(D, f, prec))

\* the float v rounded to prec significant decimal digits, ties to even:
\* the digits, without trailing zeros but for the integers of KeepsZeros,
\* and the power of ten of the first one.  The decimal expansion of v is
\* exact: m * 2^e, or m * 5^-e with -e digits after the point.
RoundFloat(v, prec) ==
    IF v.e >= 0 THEN RoundDigits(BTimesPow2(v.m, v.e), 0, prec)
    ELSE RoundDigits(BTimesPow5(v.m, 0 - v.e), 0 - v.e, prec)

\* d[.ddd]e+XX, the exponent with two digits at least
FormatExponent(sign, S, X) ==
    sign \o DigitChars(<<S[1]>>)
    \o (IF Len(S) > 1 THEN <<".">> \o DigitChars(Tail(S)) ELSE <<>>)
    \o <<"e">> \o (IF X < 0 THEN <<"-">> ELSE <<"+">>)
    \o (IF X > 0 - 10 /\ X < 10 THEN <<"0">> ELSE <<>>)
    \o DigitChars(NatDigits(IF X < 0 THEN 0 - X ELSE X))

\* the digits S with the point after the first n of them
FormatPositional(sign, S, n) ==
    sign \o DigitChars(SubSeq(S, 1, n))
    \o (IF Len(S) > n THEN <<".">> \o DigitChars(SubSeq(S, n + 1, Len(S))) ELSE <<>>)

PadTo(S, n) == IF Len(S) < n THEN S \o ZeroDigits(n - Len(S)) ELSE S

\* The style the format code g picks for the digits r.digits and the
\* exponent r.exp.  The exponent form is used below 10^-4 and when the digits
\* before the point would be more than limit; a number written without
\* exponent and without digits after the point gets ".0".
FormatRounded(sign, r, limit) ==
    IF r.exp < 0 - 4 \/ r.exp >= limit THEN FormatExponent(sign, r.digits, r.exp)
    ELSE IF r.exp >= 0
    THEN FormatPositional(sign, PadTo(r.digits, r.exp + 1), r.exp + 1)
         \o (IF Len(r.digits) <= r.exp + 1 THEN <<".", "0">> ELSE <<>>)
    ELSE sign \o <<"0", ".">> \o DigitChars(ZeroDigits(0 - r.exp - 1) \o r.digits)

SignChars(v) == IF v.neg THEN <<"-">> ELSE <<>>

\* "%s" % x for a Python float: str(x), the format code g with 12 digits and
\* ".0" for a number that would be written as an integer.  The ".0" takes
\* the place of one digit, so that the exponent form starts at 10^11.
FormatFloat(v) ==
    IF v.sp = "nan" THEN <<"n", "a", "n">>
    ELSE IF v.sp = "inf" THEN SignChars(v) \o <<"i", "n", "f">>
    ELSE IF v.m = <<>> THEN SignChars(v) \o <<"0", ".", "0">>
    ELSE FormatRounded(SignChars(v), RoundFloat(v, StrPrecision), StrPrecision - 1)

\* "%s" % a[indeces]: numarray hands back a Python int or a Python float
FormatScalar(v, ptype) == IF ptype = "int" THEN FormatInt(v.ip) ELSE FormatFloat(v)

RECURSIVE DigitsValue(_)
\* the number written by a sequence of digit characters
DigitsValue(cs) ==
    IF cs = <<>> THEN 0
    ELSE 10 * DigitsValue(SubSeq(cs, 1, Len(cs) - 1)) + DigitVal(cs[Len(cs)])

AllDigits(cs) == \A k \in 1..Len(cs) : IsDigit(cs[k])

\* the digits after the optional sign of int(text)
ParseIntDigits(neg, body) ==
    IF body /= <<>> /\ AllDigits(body)
    THEN [ok |-> TRUE,
          v  |-> [ip |-> IF neg THEN 0 - DigitsValue(body) ELSE DigitsValue(body),
                  fp |-> <<>>]]
    ELSE [ok |-> FALSE, v |-> [ip |-> 0, fp |-> <<>>]]

\* int(text) of a text without white space around it
ParseIntStripped(s) ==
    ParseIntDigits(s /= <<>> /\ Head(s) = "-",
                   IF s /= <<>> /\ Head(s) \in {"+", "-"} THEN LStrip(Tail(s)) ELSE s)

\* int(text): [ok, v].  White space around the number is skipped, and so is
\* white space between a sign and the digits.
ParseInt(cs) == ParseIntStripped(Strip(cs))

\* str.lower() of one of the letters of "inf", "infinity" and "nan"
LowerChar(c) ==
    IF c = "I" THEN "i" ELSE IF c = "N" THEN "n" ELSE IF c = "F" THEN "f"
    ELSE IF c = "T" THEN "t" ELSE IF c = "Y" THEN "y" ELSE IF c = "A" THEN "a" ELSE c

Lower(cs) == [k \in 1..Len(cs) |-> LowerChar(cs[k])]

\* the digits written by a sequence of digit characters
Digits(cs) == BTrim([k \in 1..Len(cs) |-> DigitVal(cs[k])])

\* the most digits float() reads in a number, leading zeros not counted, and
\* the most it reads after the point
MaxDigits == 1000000000

\* the exponent float() puts in the place of a larger one
MaxAbsExp == 1100000000

\* the exponent written by the digits ds, which have no leading zeros: one of
\* more than nine digits is replaced by MaxAbsExp
ExponentValue(ds) == IF Len(ds) > 9 THEN MaxAbsExp ELSE DigitsValue(DigitChars(ds))

\* the exponent after the optional sign: [ok, x]
ParseExponentDigits(neg, edig) ==
    IF edig /= <<>> /\ AllDigits(edig)
    THEN [ok |-> TRUE, x |-> (IF neg THEN 0 - 1 ELSE 1) * ExponentValue(Digits(edig))]
    ELSE [ok |-> FALSE, x |-> 0]

\* the text after the letter e
ParseExponent(expo) ==
    ParseExponentDigits(expo /= <<>> /\ Head(expo) = "-",
                        IF expo /= <<>> /\ Head(expo) \in {"+", "-"} THEN Tail(expo)
                        ELSE expo)

\* the digits S, what is left of nd digits without their trailing zeros,
\* times 10^e for the nd digits
ScaledDouble(neg, S, nd, e) == DecimalToDouble(neg, S, e + (nd - Len(S)))

\* the digits N of the number, fraclen of them after the point, and the
\* exponent x: more than MaxDigits digits are not read
ParseDigits(neg, N, fraclen, x) ==
    IF Len(N) > MaxDigits \/ fraclen > MaxDigits THEN [ok |-> FALSE, v |-> NaN]
    ELSE [ok |-> TRUE, v |-> ScaledDouble(neg, StripTrailingZeros(N), Len(N), x - fraclen)]

\* the digits ipc before and fpc after the point, and the exponent ex
ParseParts(neg, ipc, fpc, ex) ==
    IF AllDigits(ipc) /\ AllDigits(fpc) /\ Len(ipc) + Len(fpc) > 0 /\ ex.ok
    THEN ParseDigits(neg, Digits(ipc \o fpc), Len(fpc), ex.x)
    ELSE [ok |-> FALSE, v |-> NaN]

\* the position of the first character of cs that is in set, Len(cs) + 1
\* when there is none
Find(cs, set) ==
    IF \E k \in 1..Len(cs) : cs[k] \in set
    THEN CHOOSE k \in 1..Len(cs) : cs[k] \in set /\ \A j \in 1..(k - 1) : cs[j] \notin set
    ELSE Len(cs) + 1

\* the mantissa, split at its point dot
ParseMantissa(neg, mant, dot, ex) ==
    ParseParts(neg, SubSeq(mant, 1, dot - 1), SubSeq(mant, dot + 1, Len(mant)), ex)

\* a decimal number, split at its letter e at epos
ParseDecimal(neg, body, epos) ==
    ParseMantissa(neg, SubSeq(body, 1, epos - 1),
                  Find(SubSeq(body, 1, epos - 1), {"."}),
                  IF epos > Len(body) THEN [ok |-> TRUE, x |-> 0]
                  ELSE ParseExponent(SubSeq(body, epos + 1, Len(body))))

\* the text after the optional sign
ParseUnsigned(neg, body) ==
    IF Lower(body) \in {<<"i", "n", "f">>, <<"i", "n", "f", "i", "n", "i", "t", "y">>}
    THEN [ok |-> TRUE, v |-> Inf(neg)]
    ELSE IF Lower(body) = <<"n", "a", "n">> THEN [ok |-> TRUE, v |-> NaN]
    ELSE ParseDecimal(neg, body, Find(body, {"e", "E"}))

\* float(text) of a text without white space around it
ParseFloatStripped(s) ==
    ParseUnsigned(s /= <<>> /\ Head(s) = "-",
                  IF s /= <<>> /\ Head(s) \in {"+", "-"} THEN Tail(s) ELSE s)

\* float(text): [ok, v].  White space around the number is skipped; the
\* number is inf, infinity or nan in any case, or decimal digits with an
\* optional point and an optional exponent, after an optional sign.
ParseFloat(cs) == ParseFloatStripped(Strip(cs))

\* ptype(text), the cast the tokenizer applies to a token
Cast(cs, ptype) == IF ptype = "int" THEN ParseInt(cs) ELSE ParseFloat(cs)

----------------------------------------------------------------------------
(* tokenizer.Tokenizer *)

\* position of the first delimiter in the pending text, 0 when there is none
FirstDelim(buf, delim) ==
    IF \E k \in 1..Len(buf) : buf[k] = delim
    THEN CHOOSE k \in 1..Len(buf) : buf[k] = delim /\ \A j \in 1..(k - 1) : buf[j] /= delim
    ELSE 0

(* One step of the iteration over tokenizer.add(content).  The tokenizer is
   a delimiter splitter and scalar caster that produces typed scalar tokens
   and keeps an unterminated trailing text across calls: the text up to the
   first delimiter is cast to the next token, and nothing is yielded while
   the pending text holds no delimiter.  A text between two delimiters that
   holds white space only is no scalar, and no token is produced for it.
   kind is "stop" (no token), "token" (tok: a scalar) or "error" (the cast
   failed); rest is the text that stays pending. *)

\* the token cast: a text the type does not take raises ValueError
CastToken(c, rest) ==
    IF c.ok THEN [kind |-> "token", tok |-> [none |-> FALSE, v |-> c.v], rest |-> rest]
    ELSE [kind |-> "error", tok |-> None, rest |-> rest]

RECURSIVE NextToken(_, _, _)
\* the text raw, stripped of the white space around it, is cast; when
\* nothing is left of it the tokenizer goes on with the text after it
StrippedToken(raw, rest, delim, ptype) ==
    IF raw = <<>> THEN NextToken(rest, delim, ptype)
    ELSE CastToken(Cast(raw, ptype), rest)

\* the token that ends at the delimiter at p
TokenAt(buf, p, delim, ptype) ==
    IF p = 0 THEN [kind |-> "stop", tok |-> None, rest |-> buf]
    ELSE StrippedToken(Strip(SubSeq(buf, 1, p - 1)), SubSeq(buf, p + 1, Len(buf)),
                       delim, ptype)

NextToken(buf, delim, ptype) == TokenAt(buf, FirstDelim(buf, delim), delim, ptype)

----------------------------------------------------------------------------
(* The document tree: one Array node with its Dim children and its Stream *)

VARIABLES
    node,       \* "none", "failed" (the constructor raised), "built" (an Array
                \* without children), "attached" (with its Dims and ArrayStream),
                \* "stream_unlinked" (the ArrayStream alone has been unlinked),
                \* "unlinked" (the Array has been unlinked)
    origin,     \* how the node was made: "from_array", "parsed", "reparsed"
    dims,       \* pcdata of the Dim children, in document order
    atype,      \* the Type attribute of the Array
    pytype,     \* Array.pytype: "unset", "int" or "float"
    delim,      \* the Delimiter attribute of the Stream
    stype,      \* the Type attribute of the Stream
    array,      \* Array.array: None or [shape, data]
    index,      \* ArrayStream.__index: None or an _IndexIter
    tokbuf,     \* the text pending in ArrayStream.tokenizer
    err,        \* what the latest operation raised, "ok" when nothing
    doc,        \* stream text the parser has still to deliver
    free,       \* TRUE when the stream text is pushed in by direct calls
    ended,      \* endStream has been called on the Stream
    out,        \* what the latest write call put on the file
    written,    \* the array the latest write call serialised
    source,     \* the array whose written text a re-parsed node is fed
    fed,        \* all text handed to appendData so far
    toks,       \* all tokens the tokenizer has yielded so far
    lastYield,  \* how many tokens the latest appendData call drew
    failed,     \* some earlier appendData call raised
    it,         \* a stand-alone _IndexIter, None when there is none
    yielded,    \* the indices it has handed out, in order
    stops,      \* how many times it has raised StopIteration
    open,       \* the elements the content handler has open, outermost first
    lastEnd,    \* how the latest Stream end tag was handled, None before
    names       \* two array names with what the name functions returned for
                \* them, None before the calls

nodeVars == <<node, origin, dims, atype, pytype, delim, stype, array, index, tokbuf, err, doc,
              free, ended, out, written, source, fed, toks, lastYield, failed>>
iterVars == <<it, yielded, stops>>
handlerVars == <<open, lastEnd>>
nameVars == <<names>>
vars == <<node, origin, dims, atype, pytype, delim, stype, array, index, tokbuf, err, doc,
          free, ended, out, written, source, fed, toks, lastYield, failed,
          it, yielded, stops, open, lastEnd, names>>

\* types.IntTypes and types.FloatTypes
IntTypes == {"int_2s", "int_4s", "int_8s"}
FloatTypes == {"real_4", "real_8"}

\* the pytype Array.__init__ gives an integer or a float Type
PyType(t) == IF t \in IntTypes THEN "int" ELSE "float"

\* a faulty constructor that raises for no Type
ArrayInitNoCheck(t) ==
    [raised |-> FALSE, pytype |-> PyType(t), array |-> None]

\* Array.__init__ for the Type attribute t
ArrayInit(t) ==
    IF t \in IntTypes \cup FloatTypes
    THEN [raised |-> FALSE, pytype |-> PyType(t), array |-> None]
    ELSE [raised |-> TRUE, pytype |-> "unset", array |-> None]

\* the zero numarray.zeros fills with: 0 for an integer type, 0.0 for a real
Zero(ptype) == IF ptype = "int" THEN [ip |-> 0, fp |-> <<>>] ELSE FloatZero(FALSE)

\* numarray.zeros(shape, type)
Zeros(shape, ptype) ==
    [shape |-> shape, data |-> [i \in IndexSet(shape) |-> Zero(ptype)]]

\* Array.get_shape: int() of every Dim's pcdata, reversed; the ValueError of
\* int() is raised for a Dim that holds no integer
GetShape(d) ==
    IF \E k \in 1..Len(d) : ~ParseInt(d[k]).ok
    THEN [raised |-> TRUE, shape |-> <<>>]
    ELSE [raised |-> FALSE, shape |-> Reverse([k \in 1..Len(d) |-> ParseInt(d[k]).v.ip])]

\* whether the first call of appendData raises before it has an array:
\* get_shape raises, or numarray.zeros is given a negative dimension
AllocRaises(d) ==
    LET g == GetShape(d)
    IN g.raised \/ \E p \in 1..Len(g.shape) : g.shape[p] < 0

\* faulty Dim children: the array shape in storage order, not reversed
DimsFromShapeUnreversed(shape) == [k \in 1..Len(shape) |-> FormatInt(shape[k])]

\* the Dim children from_array appends: str() of the reversed array shape
DimsFromShape(shape) == LET s == Reverse(shape) IN [k \in 1..Len(s) |-> FormatInt(s[k])]

RECURSIVE ConsumeSwallowsStop(_, _, _, _, _, _)
\* a faulty loop that ends quietly when the sequencer is exhausted
ConsumeSwallowsStop(a, ix, buf, dl, ptype, got) ==
    LET t == NextToken(buf, dl, ptype)
        n == IndexIterNext(ix)
    IN IF t.kind = "stop"
       THEN [array |-> a, index |-> ix, tokbuf |-> t.rest, err |-> "ok", toks |-> got]
       ELSE IF t.kind = "error"
       THEN [array |-> a, index |-> ix, tokbuf |-> t.rest, err |-> "ValueError", toks |-> got]
       ELSE IF n.raised
       THEN [array |-> a, index |-> n.it, tokbuf |-> t.rest, err |-> "ok",
             toks |-> Append(got, t.tok)]
       ELSE ConsumeSwallowsStop([a EXCEPT !.data[n.result] = t.tok.v], n.it, t.rest, dl,
                                ptype, Append(got, t.tok))

RECURSIVE Consume(_, _, _, _, _, _)
\* one turn of the loop, with the token t and the outcome n of index.next()
ConsumeToken(a, ix, buf, dl, ptype, got, t, n) ==
    IF t.kind = "stop"
    THEN [array |-> a, index |-> ix, tokbuf |-> t.rest, err |-> "ok", toks |-> got]
    ELSE IF t.kind = "error"
    THEN [array |-> a, index |-> ix, tokbuf |-> t.rest, err |-> "ValueError", toks |-> got]
    ELSE IF n.raised
    THEN [array |-> a, index |-> n.it, tokbuf |-> t.rest, err |-> "ElementError",
          toks |-> Append(got, t.tok)]
    ELSE Consume([a EXCEPT !.data[n.result] = t.tok.v], n.it, t.rest, dl, ptype,
                 Append(got, t.tok))

\* the loop of ArrayStream.appendData over the tokens of tokenizer.add(content)
Consume(a, ix, buf, dl, ptype, got) ==
    ConsumeToken(a, ix, buf, dl, ptype, got, NextToken(buf, dl, ptype), IndexIterNext(ix))

\* a faulty appendData that runs its first-call initialisation on every call
AppendDataReallocates(n, content) ==
    LET a0  == Zeros(GetShape(n.dims).shape, n.pytype)
        ix0 == IndexIterInit(a0.shape)
    IN IF AllocRaises(n.dims)
       THEN [array |-> n.array, index |-> None, tokbuf |-> n.tokbuf,
             err |-> "ValueError", toks |-> <<>>]
       ELSE Consume(a0, ix0, n.tokbuf \o content, n.delim, n.pytype, <<>>)

\* ArrayStream.appendData on a node [dims, atype, pytype, delim, array, index, tokbuf]
AppendData(n, content) ==
    LET first == n.index = None
        a0    == IF first THEN Zeros(GetShape(n.dims).shape, n.pytype) ELSE n.array
        ix0   == IF first THEN IndexIterInit(a0.shape) ELSE n.index
    IN IF first /\ AllocRaises(n.dims)
       THEN [array |-> n.array, index |-> None, tokbuf |-> n.tokbuf,
             err |-> "ValueError", toks |-> <<>>]
       ELSE Consume(a0, ix0, n.tokbuf \o content, n.delim, n.pytype, <<>>)

\* ArrayStream.unlink on a node
StreamUnlink(n) == [n EXCEPT !.index = None]

\* a faulty Array.unlink that does not unlink the children of the Array
ArrayUnlinkSkipsChildren(n) == [n EXCEPT !.array = None]

\* Array.unlink on a node: ligolw.Array.unlink unlinks every child, the
\* ArrayStream among them, then the array is dropped
ArrayUnlink(n) == [StreamUnlink(n) EXCEPT !.array = None]

\* ligolw.Indent
Indent == <<"\t">>

RECURSIVE WriteLoopTrailingDelim(_, _, _, _, _, _)
\* a faulty while loop that writes the delimiter before asking for the next index
WriteLoopTrailingDelim(a, iter, indeces, dl, indent, ptype) ==
    LET n == IndexIterNext(iter)
    IN FormatScalar(a.data[indeces], ptype) \o <<dl>>
       \o (IF n.raised THEN <<"\n">>
           ELSE (IF n.result[1] = 0 THEN <<"\n">> \o indent \o Indent ELSE <<>>)
                \o WriteLoopTrailingDelim(a, n.it, n.result, dl, indent, ptype))

RECURSIVE WriteLoop(_, _, _, _, _, _)
\* the while loop of ArrayStream.write, entered with indeces in hand
WriteLoop(a, iter, indeces, dl, indent, ptype) ==
    LET n == IndexIterNext(iter)
    IN FormatScalar(a.data[indeces], ptype)
       \o (IF n.raised THEN <<"\n">>
           ELSE <<dl>>
                \o (IF n.result[1] = 0 THEN <<"\n">> \o indent \o Indent ELSE <<>>)
                \o WriteLoop(a, n.it, n.result, dl, indent, ptype))

\* a faulty write that takes its indices from the sequencer iter it is given
WriteFrom(a, iter, dl, indent, ptype) ==
    LET n == IndexIterNext(iter)
    IN indent \o <<"<Stream>", "\n">>
       \o (IF n.raised THEN <<"\n">>
           ELSE indent \o Indent \o WriteLoop(a, n.it, n.result, dl, indent, ptype))
       \o indent \o <<"</Stream>", "\n">>

\* what ArrayStream.write puts on the file
Write(a, dl, indent, ptype) ==
    LET n == IndexIterNext(IndexIterInit(a.shape))
    IN indent \o <<"<Stream>", "\n">>
       \o (IF n.raised THEN <<"\n">>
           ELSE indent \o Indent \o WriteLoop(a, n.it, n.result, dl, indent, ptype))
       \o indent \o <<"</Stream>", "\n">>

\* the character data of the Stream element in a written file
StreamText(file) ==
    LET b == CHOOSE k \in 1..Len(file) : file[k] = "<Stream>"
        e == CHOOSE k \in 1..Len(file) : file[k] = "</Stream>"
    IN SubSeq(file, b + 1, e - 1)

----------------------------------------------------------------------------
(* Inputs *)

\* element values of the in-memory integer arrays
IntValues == {[ip |-> n, fp |-> <<>>] : n \in {0, 12, 0 - 3}}

\* element values of the in-memory float arrays: 0.0, 0.5, -1e-05,
\* 0.1234567890123, 100000000000.0 and 1000000000005.0
FloatValues ==
    {ParseFloat(<<"0", ".", "0">>).v, ParseFloat(<<"0", ".", "5">>).v,
     ParseFloat(<<"-", "1", "e", "-", "0", "5">>).v,
     ParseFloat(<<"0", ".", "1", "2", "3", "4", "5", "6", "7", "8", "9", "0", "1", "2",
                  "3">>).v,
     ParseFloat(<<"1", "0", "0", "0", "0", "0", "0", "0", "0", "0", "0", "0">>).v,
     ParseFloat(<<"1", "0", "0", "0", "0", "0", "0", "0", "0", "0", "0", "0", "5">>).v}

\* the shapes of the in-memory arrays
Shapes ==
    {s \in UNION {[1..r -> 0..MaxDim] : r \in 0..MaxRank} : Product(s) <= MaxCells}

\* the in-memory arrays handed to from_array, with their numarray type
InputArrays ==
    UNION {{[type |-> "int_4s", array |-> [shape |-> s, data |-> d]] :
                d \in [IndexSet(s) -> IntValues]} : s \in Shapes}
    \cup
    UNION {{[type |-> "real_8", array |-> [shape |-> s, data |-> d]] :
                d \in [IndexSet(s) -> FloatValues]} :
           s \in {x \in Shapes : Product(x) <= MaxFloatCells}}

\* the Type attributes of the Array start tags
TypeNames == IntTypes \cup FloatTypes \cup {"lstring", "ilwd:char"}

\* the Dim children of a parsed Array
ParseDims == {DimsFromShape(s) : s \in Shapes}

\* characters of the free stream text
FreeChars == {"1", ",", "\n"}

\* the chunks a direct caller may push: every text of at most n characters
Chunks(n) == UNION {[1..k -> FreeChars] : k \in 0..n}

\* documents delivered by the parser: the worked examples of the format,
\* two whose Dim and Stream texts carry signs, an exponent and white space,
\* a vertical tab (U+000B) among it, and one whose stream holds three values
\* for a Buffer of one, a delimiter after each
ExampleDocs ==
    {[dims |-> << <<"3">>, <<"2">> >>, type |-> "int_4s",
      text |-> <<"1", ",", "4", ",", "2", ",", "5", ",", "3", ",", "6">>],
     [dims |-> << <<"2">>, <<"2">> >>, type |-> "int_4s",
      text |-> <<"1", ",", "2", ",", "3", ",", "4", ",", "5">>],
     [dims |-> << <<"2">>, <<"2">> >>, type |-> "int_4s",
      text |-> <<"1", ",", "2", ",", "3", ",", "4">>],
     [dims |-> << <<"2">>, <<"2">> >>, type |-> "int_4s",
      text |-> <<"1", ",", "2">>],
     [dims |-> << <<"2">> >>, type |-> "real_8",
      text |-> <<"0", ".", "5", ",", "\n", "\t", "1", "2">>],
     [dims |-> << <<"", "2", "\n">> >>, type |-> "real_8",
      text |-> <<"+", ".", "5", ",", "", "1", "e", "1", "1">>],
     [dims |-> << <<"+", "1">>, <<"2">> >>, type |-> "int_4s",
      text |-> <<"+", "7", ",", " ", "-", "3">>],
     [dims |-> << <<"1">> >>, type |-> "int_4s",
      text |-> <<"1", ",", "1", ",", "1", ",">>]}

----------------------------------------------------------------------------
(* Operations on the node *)

Init ==
    /\ node = "none" /\ origin = "none"
    /\ dims = <<>> /\ atype = "" /\ pytype = "unset" /\ delim = "," /\ stype = ""
    /\ array = None /\ index = None /\ tokbuf = <<>> /\ err = "ok"
    /\ doc = <<>> /\ free = FALSE /\ ended = FALSE
    /\ out = <<>> /\ written = None /\ source = None
    /\ fed = <<>> /\ toks = <<>> /\ lastYield = 0 /\ failed = FALSE
    /\ it = None /\ yielded = <<>> /\ stops = 0
    /\ open = <<>> /\ lastEnd = None
    /\ names = None

\* from_array(name, array)
FromArray ==
    /\ node = "none"
    /\ \E a \in InputArrays :
        /\ ~ArrayInit(a.type).raised
        /\ atype' = a.type /\ pytype' = ArrayInit(a.type).pytype
        /\ dims' = DimsFromShape(a.array.shape)
        /\ array' = a.array
    /\ node' = "attached" /\ origin' = "from_array"
    /\ delim' = " " /\ stype' = "Local" /\ index' = None /\ tokbuf' = <<>>
    /\ UNCHANGED <<err, doc, free, ended, out, written, source, fed, toks, lastYield, failed>>
    /\ UNCHANGED <<iterVars, handlerVars, nameVars>>

\* LIGOLWContentHandler.startArray: Array(attrs) for an Array start tag
StartArray ==
    /\ node = "none"
    /\ \E t \in TypeNames :
        LET r == ArrayInit(t)
        IN /\ atype' = t /\ pytype' = r.pytype /\ array' = r.array
           /\ node' = IF r.raised THEN "failed" ELSE "built"
    /\ UNCHANGED <<origin, dims, delim, stype, index, tokbuf, err, doc, free, ended, out, written,
                   source, fed, toks, lastYield, failed>>
    /\ UNCHANGED <<iterVars, handlerVars, nameVars>>

\* the Dim children and startStream of a document whose stream text is then
\* pushed in by direct appendData calls
StartFree ==
    /\ node = "built" /\ atype = "int_4s"
    /\ \E d \in ParseDims : dims' = d
    /\ delim' = "," /\ stype' = "Local" /\ UNCHANGED <<atype, pytype>>
    /\ node' = "attached" /\ origin' = "parsed" /\ free' = TRUE
    /\ array' = None /\ index' = None /\ tokbuf' = <<>>
    /\ UNCHANGED <<err, doc, ended, out, written, source, fed, toks, lastYield, failed>>
    /\ UNCHANGED <<iterVars, handlerVars, nameVars>>

\* the Dim children and startStream of a document the parser delivers
StartDoc ==
    /\ node = "built"
    /\ \E x \in ExampleDocs :
        /\ x.type = atype /\ dims' = x.dims /\ doc' = x.text
    /\ delim' = "," /\ stype' = "Local" /\ UNCHANGED <<atype, pytype>>
    /\ node' = "attached" /\ origin' = "parsed" /\ free' = FALSE
    /\ array' = None /\ index' = None /\ tokbuf' = <<>>
    /\ UNCHANGED <<err, ended, out, written, source, fed, toks, lastYield, failed>>
    /\ UNCHANGED <<iterVars, handlerVars, nameVars>>

\* the node as ArrayStream.appendData sees it
Node == [dims |-> dims, atype |-> atype, pytype |-> pytype, delim |-> delim,
         array |-> array, index |-> index, tokbuf |-> tokbuf]

\* the effect of one appendData(content) call on the node and on the history
Appended(content) ==
    \E r \in {AppendData(Node, content)} :
       /\ array' = r.array /\ index' = r.index /\ tokbuf' = r.tokbuf /\ err' = r.err
       /\ fed' = fed \o content
       /\ toks' = toks \o r.toks
       /\ lastYield' = Len(r.toks)
       /\ failed' = (failed \/ err /= "ok")

\* a characters event: the next chunk of stream text goes to appendData
Characters ==
    /\ node = "attached" /\ origin /= "from_array" /\ ~ended
    /\ \/ /\ free
          /\ \E c \in Chunks(MaxText - Len(fed)) : Appended(c)
          /\ doc' = doc
       \/ /\ ~free
          /\ \E k \in 0..Len(doc) :
                /\ Appended(SubSeq(doc, 1, k))
                /\ doc' = SubSeq(doc, k + 1, Len(doc))
    /\ UNCHANGED <<node, origin, dims, atype, pytype, delim, stype, free, ended, out, written, source>>
    /\ UNCHANGED <<iterVars, handlerVars, nameVars>>

\* a faulty endStream that does not push the final delimiter
EndStreamNoFlush ==
    /\ node = "attached" /\ origin /= "from_array" /\ ~ended
    /\ doc = <<>> /\ err = "ok" /\ ~failed
    /\ ended' = TRUE
    /\ UNCHANGED <<node, origin, dims, atype, pytype, delim, stype, doc, free, out, written, source,
                   array, index, tokbuf, err, fed, toks, lastYield, failed>>
    /\ UNCHANGED <<iterVars, handlerVars, nameVars>>

\* LIGOLWContentHandler.endStream, reached when no earlier event raised
EndStream ==
    /\ node = "attached" /\ origin /= "from_array" /\ ~ended
    /\ doc = <<>> /\ err = "ok" /\ ~failed
    /\ Appended(<<delim>>)
    /\ ended' = TRUE
    /\ UNCHANGED <<node, origin, dims, atype, pytype, delim, stype, doc, free, out, written, source>>
    /\ UNCHANGED <<iterVars, handlerVars, nameVars>>

\* a faulty write that runs the cursor of the node instead of one of its
\* own: it emits the values from where the cursor stands and leaves the
\* cursor exhausted
WriteStreamUsesCursor ==
    /\ node = "attached" /\ array /= None
    /\ origin = "from_array" \/ ended \/ (origin = "parsed" /\ ~free)
    /\ \E indent \in {<<>>, <<"\t">>} :
          out' = WriteFrom(array, IF index = None THEN IndexIterInit(array.shape) ELSE index,
                           delim, indent, PyType(atype))
    /\ written' = array
    /\ index' = AdvanceBy(IndexIterInit(array.shape), Product(array.shape))
    /\ UNCHANGED <<node, origin, dims, atype, pytype, delim, stype, array, tokbuf, err, doc,
                   free, ended, source, fed, toks, lastYield, failed>>
    /\ UNCHANGED <<iterVars, handlerVars, nameVars>>

\* ArrayStream.write(file, indent), called on a node that holds an array: one
\* made by from_array, one whose stream has ended, or one in a document the
\* parser is delivering, between two of its characters events
WriteStream ==
    /\ node = "attached" /\ array /= None
    /\ origin = "from_array" \/ ended \/ (origin = "parsed" /\ ~free)
    /\ \E indent \in {<<>>, <<"\t">>} : out' = Write(array, delim, indent, PyType(atype))
    /\ written' = array
    /\ UNCHANGED <<node, origin, dims, atype, pytype, delim, stype, array, index, tokbuf, err, doc,
                   free, ended, source, fed, toks, lastYield, failed>>
    /\ UNCHANGED <<iterVars, handlerVars, nameVars>>

\* the written file is parsed again: a new node with the same Dim children
\* and attributes, its stream text the character data of the written Stream
Reparse ==
    /\ node = "attached" /\ origin /= "reparsed" /\ out /= <<>>
    /\ origin' = "reparsed" /\ source' = written
    /\ array' = None /\ index' = None /\ tokbuf' = <<>> /\ err' = "ok"
    /\ doc' = StreamText(out) /\ free' = FALSE /\ ended' = FALSE
    /\ fed' = <<>> /\ toks' = <<>> /\ lastYield' = 0 /\ failed' = FALSE
    /\ UNCHANGED <<node, dims, atype, pytype, delim, stype, out, written>>
    /\ UNCHANGED <<iterVars, handlerVars, nameVars>>

\* unlink() called on the ArrayStream child alone, in a document the parser
\* has delivered or is delivering
UnlinkStream ==
    /\ node = "attached" /\ origin = "parsed" /\ ~free
    /\ LET n == StreamUnlink(Node)
       IN array' = n.array /\ index' = n.index
    /\ node' = "stream_unlinked"
    /\ UNCHANGED <<origin, dims, atype, pytype, delim, stype, tokbuf, err, doc, free, ended, out,
                   written, source, fed, toks, lastYield, failed>>
    /\ UNCHANGED <<iterVars, handlerVars, nameVars>>

\* unlink() called on the Array, in a document the parser has delivered or
\* is delivering
UnlinkArray ==
    /\ node \in {"attached", "stream_unlinked"} /\ origin = "parsed" /\ ~free
    /\ LET n == ArrayUnlink(Node)
       IN array' = n.array /\ index' = n.index
    /\ node' = "unlinked"
    /\ UNCHANGED <<origin, dims, atype, pytype, delim, stype, tokbuf, err, doc, free, ended, out,
                   written, source, fed, toks, lastYield, failed>>
    /\ UNCHANGED <<iterVars, handlerVars, nameVars>>

Next ==
    \/ FromArray
    \/ StartArray
    \/ StartFree
    \/ StartDoc
    \/ Characters
    \/ EndStream
    \/ WriteStream
    \/ Reparse
    \/ UnlinkStream
    \/ UnlinkArray

Spec == Init /\ [][Next]_vars

----------------------------------------------------------------------------
(* A stand-alone sequencer *)

\* the shapes a stand-alone _IndexIter is built over
IterShapes == UNION {[1..r -> 0..MaxIterDim] : r \in 0..MaxIterRank}

\* _IndexIter(shape)
NewIter ==
    /\ it = None
    /\ \E s \in IterShapes : it' = IndexIterInit(s)
    /\ UNCHANGED <<yielded, stops>>
    /\ UNCHANGED <<nodeVars, handlerVars, nameVars>>

\* it.next()
IterNext ==
    /\ it /= None /\ stops < MaxStops
    /\ LET n == IndexIterNext(it)
       IN /\ it' = n.it
          /\ yielded' = IF n.raised THEN yielded ELSE Append(yielded, n.result)
          /\ stops' = IF n.raised THEN stops + 1 ELSE stops
    /\ UNCHANGED <<nodeVars, handlerVars, nameVars>>

NextIter ==
    \/ NewIter
    \/ IterNext

SpecIter == Init /\ [][NextIter]_vars

----------------------------------------------------------------------------
(* The content handler *)

\* how deep the elements of a document nest
MaxDepth == 3

\* the tag names of the start tags
Tags == {"LIGO_LW", "Array", "Table", "Stream"}

\* the element a start tag finds open: self.current
Current == IF open = <<>> THEN [tag |-> "Document", cls |-> "ligolw.Document"]
           ELSE open[Len(open)]

\* the parent of the element a Stream end tag finds open: self.current.parentNode
ParentOfCurrent == IF Len(open) < 2 THEN [tag |-> "Document", cls |-> "ligolw.Document"]
                   ELSE open[Len(open) - 1]

\* LIGOLWContentHandler.startArray: the class of the node it returns
StartArrayClass == "array.Array"

\* LIGOLWContentHandler.startStream: the class of the node it returns
StartStreamClass(current) ==
    IF current.tag = "Array" THEN "array.ArrayStream" ELSE "ligolw.Stream"

\* a faulty endStream that looks at the tag of the stream, not of its parent
EndStreamRouteByOwnTag(current, parent) ==
    IF current.tag = "Array" THEN "appendData" ELSE "ligolw.endStream"

\* LIGOLWContentHandler.endStream: what is done with the stream that ends
EndStreamRoute(current, parent) ==
    IF parent.tag = "Array" THEN "appendData" ELSE "ligolw.endStream"

\* a start tag: the handler makes the node, appends it to the open element
\* and makes it the open element
StartElement ==
    /\ Len(open) < MaxDepth
    /\ \E tag \in Tags :
        LET cls == IF tag = "Array" THEN StartArrayClass
                   ELSE IF tag = "Stream" THEN StartStreamClass(Current)
                   ELSE "ligolw." \o tag
        IN open' = Append(open, [tag |-> tag, cls |-> cls])
    /\ UNCHANGED lastEnd
    /\ UNCHANGED <<nodeVars, iterVars, nameVars>>

\* an end tag: a Stream goes through endStream, then the parent of the open
\* element becomes the open element
EndElement ==
    /\ open /= <<>>
    /\ lastEnd' = IF Current.tag = "Stream"
                  THEN [cls |-> Current.cls, how |-> EndStreamRoute(Current, ParentOfCurrent)]
                  ELSE lastEnd
    /\ open' = SubSeq(open, 1, Len(open) - 1)
    /\ UNCHANGED <<nodeVars, iterVars, nameVars>>

NextHandler ==
    \/ StartElement
    \/ EndElement

SpecHandler == Init /\ [][NextHandler]_vars

----------------------------------------------------------------------------
(* Array names *)

\* how many ":"-separated segments the names have at most
MaxSegments == 3

\* the characters of the names in ASCII order
Alphabet ==
    <<"0", "1", "2", "3", "4", "5", "6", "7", "8", "9", ":",
      "A", "B", "C", "D", "E", "F", "G", "H", "I", "J", "K", "L", "M",
      "N", "O", "P", "Q", "R", "S", "T", "U", "V", "W", "X", "Y", "Z", "_",
      "a", "b", "c", "d", "e", "f", "g", "h", "i", "j", "k", "l", "m",
      "n", "o", "p", "q", "r", "s", "t", "u", "v", "w", "x", "y", "z">>

\* ord() of a character, up to a shift
Ord(c) == CHOOSE k \in 1..Len(Alphabet) : Alphabet[k] = c

\* the character class [a-z0-9_]
IsNameChar(c) == Ord(c) <= 10 \/ Ord(c) >= 38

\* [a-z0-9_]+ over a whole string
IsWord(w) == w /= <<>> /\ \A k \in 1..Len(w) : IsNameChar(w[k])

\* ArrayPattern.search(name): whether the pattern matches and its Name group
ArrayPatternSearch(name) ==
    LET n    == Len(name)
        body == SubSeq(name, 1, n - 6)
        cut  == {k \in 1..Len(body) : /\ body[k] = ":"
                                      /\ IsWord(SubSeq(body, 1, k - 1))
                                      /\ IsWord(SubSeq(body, k + 1, Len(body)))}
    IN IF n < 7 \/ SubSeq(name, n - 5, n) /= <<":", "a", "r", "r", "a", "y">>
       THEN [matched |-> FALSE, Name |-> <<>>]
       ELSE IF cut /= {}
       THEN [matched |-> TRUE,
             Name |-> SubSeq(body, (CHOOSE k \in cut : TRUE) + 1, Len(body))]
       ELSE IF IsWord(body) THEN [matched |-> TRUE, Name |-> body]
       ELSE [matched |-> FALSE, Name |-> <<>>]

\* a faulty StripArrayName that removes the suffix and keeps the prefix
StripArrayNameKeepsPrefix(name) ==
    IF ArrayPatternSearch(name).matched THEN SubSeq(name, 1, Len(name) - 6) ELSE name

\* StripArrayName(name)
StripArrayName(name) ==
    LET m == ArrayPatternSearch(name)
    IN IF m.matched THEN m.Name ELSE name

RECURSIVE Cmp(_, _)
\* cmp() of two strings
Cmp(a, b) ==
    IF a = <<>> /\ b = <<>> THEN 0
    ELSE IF a = <<>> THEN 0 - 1
    ELSE IF b = <<>> THEN 1
    ELSE IF Ord(Head(a)) < Ord(Head(b)) THEN 0 - 1
    ELSE IF Ord(Head(a)) > Ord(Head(b)) THEN 1
    ELSE Cmp(Tail(a), Tail(b))

\* CompareArrayNames(name1, name2)
CompareArrayNames(name1, name2) == Cmp(StripArrayName(name1), StripArrayName(name2))

\* the segments the names are put together from
Segments == {<<"x">>, <<"p">>, <<"a", "r", "r", "a", "y">>, <<"X">>, <<>>}

RECURSIVE Join(_)
\* the segments joined by ":"
Join(segs) ==
    IF Len(segs) = 1 THEN segs[1] ELSE segs[1] \o <<":">> \o Join(Tail(segs))

\* the segment lists of at most n segments
SegLists(n) == UNION {[1..k -> Segments] : k \in 1..n}

\* the name functions called on two names
CallNames ==
    /\ names = None
    /\ \E s1 \in SegLists(MaxSegments), s2 \in SegLists(MaxSegments - 1) :
        LET name1 == Join(s1)
            name2 == Join(s2)
        IN names' = [segs |-> s1, name1 |-> name1, name2 |-> name2,
                     stripped1 |-> StripArrayName(name1),
                     stripped2 |-> StripArrayName(name2),
                     again |-> StripArrayName(StripArrayName(name1)),
                     cmp |-> CompareArrayNames(name1, name2)]
    /\ UNCHANGED <<nodeVars, iterVars, handlerVars>>

NextNames == CallNames

SpecNames == Init /\ [][NextNames]_vars

----------------------------------------------------------------------------
(* Reference definitions used by the properties *)

\* the k-th index (k from 0) of the odometer order over a shape of positive
\* sizes, position 1 of the tuple (position 0 in the source) varying fastest
Odometer(shape, k) ==
    [p \in 1..Len(shape) |-> (k \div Product(SubSeq(shape, 1, p - 1))) % shape[p]]

AllPositive(shape) == \A p \in 1..Len(shape) : shape[p] > 0

RECURSIVE AllTokens(_, _, _)
\* the tokens of a whole text, in document order
AllTokens(text, dl, ptype) ==
    LET t == NextToken(text, dl, ptype)
    IN IF t.kind = "stop" THEN <<>>
       ELSE IF t.kind = "error" THEN AllTokens(t.rest, dl, ptype)
       ELSE <<t.tok>> \o AllTokens(t.rest, dl, ptype)

\* a scalar token holding the Python int n
IntTok(n) == [none |-> FALSE, v |-> [ip |-> n, fp |-> <<>>]]

----------------------------------------------------------------------------
(* Properties of the sequencer, under SpecIter *)

\* C4: over a shape of positive sizes the sequencer hands out the indices in
\* odometer order, position 0 fastest, each valid index exactly once; it
\* signals exhaustion only after product(Shape) indices, and is exhausted as
\* soon as the last index has been handed out.
C4_SequencerOrder ==
    (it /= None /\ AllPositive(it.shape)) =>
        /\ Len(yielded) <= Product(it.shape)
        /\ \A k \in 1..Len(yielded) : yielded[k] = Odometer(it.shape, k - 1)
        /\ \A j, k \in 1..Len(yielded) : yielded[j] = yielded[k] => j = k
        /\ it.stop <=> Len(yielded) = Product(it.shape)
        /\ stops > 0 => {yielded[k] : k \in 1..Len(yielded)} = IndexSet(it.shape)

\* C4 witness: Shape (2,3) has yielded its six indices in the documented order
\* and the call after the last one has raised StopIteration.
C4_Witness ==
    /\ it /= None /\ it.shape = <<2, 3>>
    /\ yielded = << <<0, 0>>, <<1, 0>>, <<0, 1>>, <<1, 1>>, <<0, 2>>, <<1, 2>> >>
    /\ stops = 1

----------------------------------------------------------------------------
(* Properties of the codec, under Spec *)

\* a node that is being, or has been, filled by appendData
Parsing == node = "attached" /\ origin /= "from_array" /\ index /= None

\* the node before its first appendData call
Fresh == [dims |-> dims, atype |-> atype, pytype |-> pytype, delim |-> delim,
          array |-> None, index |-> None, tokbuf |-> <<>>]

\* the k-th token (k from 1) sits at the k-th odometer index of the Buffer
StoredInOrder ==
    \A k \in 1..Len(toks) :
        (k <= Product(array.shape) /\ toks[k] /= None)
            => array.data[Odometer(array.shape, k - 1)] = toks[k].v

\* how many delimiters a text holds
NumDelims(text, dl) == Cardinality({k \in 1..Len(text) : text[k] = dl})

\* the text after the last delimiter
AfterLastDelim(text, dl) ==
    LET ks == {k \in 1..Len(text) : text[k] = dl}
        last == IF ks = {} THEN 0 ELSE CHOOSE k \in ks : \A j \in ks : j <= k
    IN SubSeq(text, last + 1, Len(text))

\* the indent argument of the latest write call
OutIndent == SubSeq(out, 1, (CHOOSE k \in 1..Len(out) : out[k] = "<Stream>") - 1)

\* C1: parsing the text that write produced for an Array A, on a node with
\* the same Dim children, raises no error and, once the stream has ended,
\* leaves a Buffer with the Shape and the values of A.
C1_RoundTrip ==
    (node = "attached" /\ origin = "reparsed") => (err = "ok" /\ (ended => array = source))

\* C2 as stated: an appendData call fails with ArrayOverflow exactly when the
\* tokens drawn up to and including that call outnumber product(Shape).
C2_Original ==
    Parsing => (err = "ElementError" <=> Len(toks) > Product(array.shape))

\* C2: an appendData call fails with ArrayOverflow exactly when it draws at
\* least one token and the tokens drawn up to and including that call
\* outnumber product(Shape); no call fails with ArrayOverflow while the count
\* is at most product(Shape), and a call that draws no token does not fail
\* with it.
C2_Overflow ==
    Parsing =>
        (err = "ElementError" <=> (lastYield > 0 /\ Len(toks) > Product(array.shape)))

\* C2 witness: Shape (2,2) fed five values, the fifth raised ArrayOverflow.
C2_Witness ==
    /\ Parsing /\ array.shape = <<2, 2>>
    /\ toks = <<IntTok(1), IntTok(2), IntTok(3), IntTok(4), IntTok(5)>>
    /\ err = "ElementError"

\* C3: the tokens are drawn in document order across all chunks, the k-th
\* token overall is stored at the k-th odometer index, and the cursor of the
\* node stands at the index of the next token, whatever the chunking.
C3_PlacementOrder ==
    (Parsing /\ AllPositive(array.shape)) =>
        LET all == AllTokens(fed, delim, PyType(atype))
        IN /\ Len(toks) <= Len(all)
           /\ \A k \in 1..Len(toks) : toks[k] = all[k]
           /\ StoredInOrder
           /\ index.stop <=> Len(toks) >= Product(array.shape)
           /\ ~index.stop => index.index = Odometer(array.shape, Len(toks))

\* C3 witness: the six values of a Shape (2,3) array arrived over several
\* calls, the last one drawn by a later call than the first, and sit in
\* odometer order.
C3_Witness ==
    /\ Parsing /\ array.shape = <<2, 3>>
    /\ toks = <<IntTok(1), IntTok(4), IntTok(2), IntTok(5), IntTok(3), IntTok(6)>>
    /\ lastYield = 1
    /\ array.data[<<1, 0>>].ip = 4 /\ array.data[<<0, 1>>].ip = 2
    /\ array.data[<<1, 2>>].ip = 6

\* the outcome of pushing a whole stream text in one appendData call,
\* followed by the end-of-stream delimiter when the stream has ended
WholeRun ==
    LET text == IF ended THEN SubSeq(fed, 1, Len(fed) - 1) ELSE fed
        r1   == AppendData(Fresh, text)
        n1   == [dims |-> dims, atype |-> atype, pytype |-> pytype, delim |-> delim,
                 array |-> r1.array, index |-> r1.index, tokbuf |-> r1.tokbuf]
    IN IF ended /\ r1.err = "ok" THEN AppendData(n1, <<delim>>) ELSE r1

\* C5: as long as no earlier call has raised, the Buffer and the outcome
\* reached by pushing the stream text in chunks, split anywhere, are those of
\* pushing the same text in a single call.
C5_ChunkRobust ==
    (Parsing /\ ~failed) => (array = WholeRun.array /\ err = WholeRun.err)

\* C5 witness: a call ended in the middle of a token, after an earlier token
\* had been stored.
C5_Witness ==
    /\ Parsing /\ ~failed /\ err = "ok" /\ ~ended
    /\ Len(toks) >= 1 /\ lastYield = 0 /\ Strip(tokbuf) = <<"1">>

(* What Python 2 gives for "%s" % x on the scalars that occur as elements,
   written down value by value: str() of an int is its decimal numeral, and
   str() of a float its value in 12 significant digits, with ".0" after a
   whole number and the exponent form from 10^11 up and below 10^-4.  The
   float is named by a decimal numeral of its exact value or, for
   0.1234567890123, of the double nearest to it. *)
IntTexts ==
    {<<0 - 3, <<"-", "3">>>>, <<0, <<"0">>>>, <<1, <<"1">>>>, <<2, <<"2">>>>,
     <<3, <<"3">>>>, <<4, <<"4">>>>, <<5, <<"5">>>>, <<6, <<"6">>>>,
     <<7, <<"7">>>>, <<11, <<"1", "1">>>>, <<12, <<"1", "2">>>>,
     <<111, <<"1", "1", "1">>>>, <<1111, <<"1", "1", "1", "1">>>>,
     <<11111, <<"1", "1", "1", "1", "1">>>>,
     <<111111, <<"1", "1", "1", "1", "1", "1">>>>}

FloatTexts ==
    {<<ParseFloat(<<"0", ".", "0">>).v,
       <<"0", ".", "0">>>>,
     <<ParseFloat(<<"0", ".", "5">>).v,
       <<"0", ".", "5">>>>,
     <<ParseFloat(<<"-", "1", "e", "-", "0", "5">>).v,
       <<"-", "1", "e", "-", "0", "5">>>>,
     <<ParseFloat(<<"0", ".", "1", "2", "3", "4", "5", "6", "7", "8", "9", "0", "1", "2", "3">>).v,
       <<"0", ".", "1", "2", "3", "4", "5", "6", "7", "8", "9", "0", "1", "2">>>>,
     <<ParseFloat(<<"0", ".", "1", "2", "3", "4", "5", "6", "7", "8", "9", "0", "1", "2">>).v,
       <<"0", ".", "1", "2", "3", "4", "5", "6", "7", "8", "9", "0", "1", "2">>>>,
     <<ParseFloat(<<"1", "2">>).v,
       <<"1", "2", ".", "0">>>>,
     <<ParseFloat(<<"1", "e", "1", "1">>).v,
       <<"1", "e", "+", "1", "1">>>>,
     <<ParseFloat(<<"1", "0", "0", "0", "0", "0", "0", "0", "0", "0", "0", "0", "5">>).v,
       <<"1", ".", "0", "0", "0", "0", "0", "0", "0", "0", "0", "0", "0", "e", "+", "1", "2">>>>,
     <<ParseFloat(<<"1", "e", "1", "2">>).v,
       <<"1", "e", "+", "1", "2">>>>}

\* the table that holds the scalars of a Python type
ElementTexts(ptype) ==
    IF ptype = "int" THEN {<<[ip |-> p[1], fp |-> <<>>], p[2]>> : p \in IntTexts}
    ELSE FloatTexts

\* whether the table holds the scalar v
HasText(v, ptype) == \E p \in ElementTexts(ptype) : p[1] = v

\* the text the table holds for the scalar v
ElementText(v, ptype) == (CHOOSE p \in ElementTexts(ptype) : p[1] = v)[2]

RECURSIVE ExpectedValues(_, _, _, _, _)
\* the values of an array from the k-th on, as the format lays them out
ExpectedValues(a, dl, indent, ptype, k) ==
    IF k >= Product(a.shape) THEN <<>>
    ELSE (IF k > 0 /\ k % a.shape[1] = 0 THEN <<"\n">> \o indent \o Indent ELSE <<>>)
         \o ElementText(a.data[Odometer(a.shape, k)], ptype)
         \o (IF k < Product(a.shape) - 1 THEN <<dl>> ELSE <<>>)
         \o ExpectedValues(a, dl, indent, ptype, k + 1)

\* the file the format asks for: the tag lines around the values of the
\* array, or around an empty line when it has none
ExpectedFile(a, dl, indent, ptype) ==
    indent \o <<"<Stream>", "\n">>
    \o (IF Product(a.shape) = 0 THEN <<>>
        ELSE indent \o Indent \o ExpectedValues(a, dl, indent, ptype, 0))
    \o <<"\n">> \o indent \o <<"</Stream>", "\n">>

\* every element of the array has its text in the table
AllHaveText(a, ptype) == \A i \in DOMAIN a.data : HasText(a.data[i], ptype)

\* C8: for an array with at least one element write emits the values in
\* odometer order, the delimiter after every value but the last, and a line
\* break plus indentation exactly before each value whose fastest index is 0,
\* the first value excepted.
C8_WriteFormat ==
    (out /= <<>> /\ Product(written.shape) >= 1) =>
        /\ AllHaveText(written, PyType(atype))
        /\ out = OutIndent \o <<"<Stream>", "\n">> \o OutIndent \o Indent
                 \o ExpectedValues(written, delim, OutIndent, PyType(atype), 0)
                 \o <<"\n">> \o OutIndent \o <<"</Stream>", "\n">>

\* C8 witness: Shape (2,3) with the values 1,4,2,5,3,6 and delimiter ","
\* written as three lines of two values.
C8_Witness ==
    /\ written /= None /\ written.shape = <<2, 3>> /\ delim = ","
    /\ out = <<"<Stream>", "\n", "\t", "1", ",", "4", ",", "\n", "\t", "2", ",", "5", ",",
               "\n", "\t", "3", ",", "6", "\n", "</Stream>", "\n">>

\* int() of the pcdata of the p-th Dim child
DimSize(p) == ParseInt(dims[p]).v.ip

\* C9: the Shape is the list of Dim sizes fully reversed, in both directions:
\* the Dim children from_array makes give back the shape of its array, the
\* Buffer appendData allocates has the reversed Dim sizes as its shape, and
\* rebuilding the Dim children from a resolved shape resolves to the same shape.
C9_ShapeDuality ==
    /\ (node = "attached" /\ origin = "from_array") =>
          /\ GetShape(dims).shape = array.shape
          /\ Len(dims) = Len(array.shape)
          /\ \A q \in 1..Len(dims) : DimSize(q) = array.shape[Len(dims) + 1 - q]
    /\ Parsing =>
          /\ Len(array.shape) = Len(dims)
          /\ \A q \in 1..Len(dims) : array.shape[q] = DimSize(Len(dims) + 1 - q)
    /\ node = "attached" => GetShape(DimsFromShape(GetShape(dims).shape)) = GetShape(dims)

\* C9 witness: from_array was given an array of shape (1,2), whose Dim
\* children read 2, 1.
C9_Witness ==
    /\ node = "attached" /\ origin = "from_array" /\ array.shape = <<1, 2>>
    /\ dims = << <<"2">>, <<"1">> >>

\* C10: endStream hands exactly one delimiter to appendData; before it no
\* token is drawn beyond the delimiters seen, the tokens drawn are exactly
\* those of the texts a delimiter has ended, and the unterminated tail stays
\* pending; after it nothing is pending and, unless ArrayOverflow was raised,
\* every value of the text sits in the Buffer.
C10_Flush ==
    /\ [][(~ended /\ ended') => fed' = Append(fed, delim)]_vars
    /\ [](Parsing =>
            /\ Len(toks) <= NumDelims(fed, delim)
            /\ (~ended /\ ~failed /\ err = "ok") =>
                  /\ tokbuf = AfterLastDelim(fed, delim)
                  /\ toks = AllTokens(fed, delim, PyType(atype))
            /\ ended =>
                  \/ err = "ElementError"
                  \/ /\ tokbuf = <<>>
                     /\ toks = AllTokens(fed, delim, PyType(atype))
                     /\ StoredInOrder)

\* C10 witness: the stream has ended without error and the last value, which
\* no delimiter followed in the text, was drawn by the end-of-stream call.
C10_Witness ==
    /\ Parsing /\ ended /\ err = "ok" /\ lastYield = 1
    /\ fed = <<"1", ",", "2", ",">>
    /\ toks = <<IntTok(1), IntTok(2)>>

----------------------------------------------------------------------------
(* The life cycle of the Buffer and of the cursor, under Spec *)

\* one appendData call, a characters event or the end of the stream: the
\* steps of a node under parse that are no write, no unlink and no new parse
AppendStep ==
    /\ node = "attached" /\ node' = "attached"
    /\ origin /= "from_array" /\ origin' = origin
    /\ out' = out /\ written' = written

\* the Dim sizes in reverse document order
ReversedDims == [q \in 1..Len(dims) |-> DimSize(Len(dims) + 1 - q)]

RECURSIVE Handed(_, _)
\* the indices the next k next() calls of a sequencer hand out
Handed(ix, k) ==
    LET n == IndexIterNext(ix)
    IN IF k = 0 \/ n.raised THEN {} ELSE {n.result} \cup Handed(n.it, k - 1)

\* C11: on a node the parser fills the Buffer is absent until the first
\* appendData call; the first call allocates a Buffer whose shape is the
\* reversed list of Dim sizes, zero everywhere but where that call stored a
\* token, and starts a cursor at the first index; a later call keeps the
\* Buffer's shape, changes no position but those its own tokens are stored
\* at, and moves the cursor on from where the call before left it.
C11_AllocateOnce ==
    /\ []((node = "attached" /\ origin /= "from_array" /\ index = None)
            => (array = None /\ toks = <<>>))
    /\ [][AppendStep =>
            LET first  == index = None
                base   == IF first THEN [i \in IndexSet(ReversedDims) |-> Zero(PyType(atype))]
                          ELSE array.data
                cursor == IF first THEN IndexIterInit(ReversedDims) ELSE index
            IN /\ first <=> array = None
               /\ array' /= None /\ index' /= None
               /\ array'.shape = ReversedDims
               /\ DOMAIN array'.data = IndexSet(ReversedDims)
               /\ index' = AdvanceBy(cursor, lastYield')
               /\ \A i \in IndexSet(ReversedDims) \ Handed(cursor, lastYield') :
                      array'.data[i] = base[i]]_vars

\* C11 witness: the second value of a Shape (2,2) array was stored by a later
\* call than the first, which is still in place, and the cursor stands at
\* the third index.
C11_Witness ==
    /\ Parsing /\ array.shape = <<2, 2>> /\ err = "ok" /\ ~failed /\ ~ended
    /\ toks = <<IntTok(1), IntTok(2)>> /\ lastYield = 1
    /\ array.data[<<0, 0>>].ip = 1 /\ array.data[<<1, 0>>].ip = 2
    /\ index.index = <<0, 1>>

\* C12: constructing an Array whose Type is in neither types.IntTypes nor
\* types.FloatTypes raises TypeError at once: no node comes to exist, so no
\* Buffer, no cursor and no stream text ever belong to it; a constructed
\* Array has pytype int for an integer Type and float for a float Type, and
\* no Buffer until a stream or from_array gives it one.
C12_UnknownType ==
    /\ node = "failed" =>
          /\ atype \notin IntTypes \cup FloatTypes
          /\ pytype = "unset"
          /\ array = None /\ index = None /\ fed = <<>> /\ toks = <<>> /\ out = <<>>
    /\ node \in {"built", "attached"} =>
          /\ atype \in IntTypes \cup FloatTypes
          /\ atype \in IntTypes => pytype = "int"
          /\ atype \in FloatTypes => pytype = "float"
    /\ node = "built" => array = None

\* C12 witness: Array(attrs) with Type "lstring" has raised TypeError.
C12_Witness == node = "failed" /\ atype = "lstring" /\ array = None

\* C13 as stated: after unlinking the Array its Buffer and the cursor of its
\* Stream child are both absent, and after no unlink is one of the two
\* absent while the other, which the stream was filling, is still held.
C13_Original ==
    /\ node = "unlinked" => (array = None /\ index = None)
    /\ (node \in {"unlinked", "stream_unlinked"} /\ origin /= "from_array") =>
          (array = None <=> index = None)

\* C13: unlinking the Array releases its Buffer and the cursor of its Stream
\* child together, whether or not the Stream had been unlinked before;
\* unlinking the Stream child alone releases the cursor and leaves the Buffer
\* of the Array as it was; after no unlink is the Buffer absent while the
\* cursor is still held.
C13_Release ==
    /\ [](node = "unlinked" => (array = None /\ index = None))
    /\ [](node = "stream_unlinked" => index = None)
    /\ [][(node = "attached" /\ node' = "stream_unlinked") => array' = array]_vars
    /\ []((node \in {"unlinked", "stream_unlinked"} /\ array = None) => index = None)

\* C13 witness: an Array whose stream had stored two values and ended has
\* been unlinked.
C13_Witness ==
    /\ node = "unlinked" /\ origin = "parsed" /\ ended
    /\ toks = <<IntTok(1), IntTok(2)>>
    /\ array = None /\ index = None

----------------------------------------------------------------------------
(* Construction from an in-memory array, under Spec *)

\* the values of an array in odometer order
GivenValues(a) ==
    IF AllPositive(a.shape)
    THEN [k \in 1..Product(a.shape) |-> a.data[Odometer(a.shape, k - 1)]]
    ELSE <<>>

\* the values of the tokens
Scalars(ts) == [k \in 1..Len(ts) |-> ts[k].v]

\* the values a reader finds in the character data of a written Stream
EmittedValues(file, dl, ptype) ==
    Scalars(AllTokens(StreamText(file) \o <<dl>>, dl, ptype))

\* C14: the node from_array returns holds the given array as its Buffer, one
\* Dim child per dimension and a Stream child of Type "Local" with a
\* delimiter; write can be called on it at once, with no appendData call and
\* no allocation before or during it, and the values it emits are exactly
\* the values of the given array.
C14_FromArray ==
    (node = "attached" /\ origin = "from_array") =>
        /\ array /= None /\ index = None /\ fed = <<>>
        /\ Len(dims) = Len(array.shape)
        /\ stype = "Local" /\ delim = " "
        /\ out /= <<>> =>
              /\ written = array
              /\ EmittedValues(out, delim, pytype) = GivenValues(array)

----------------------------------------------------------------------------
(* Dispatch, under SpecHandler *)

\* the tag of the element that was open when the k-th open element started
OpenedUnder(k) == IF k = 1 THEN "Document" ELSE open[k - 1].tag

\* C15: every Array start tag gives an Array of this module; a Stream start
\* tag gives an ArrayStream exactly when the element open at that moment is
\* an Array, and a generic Stream otherwise; a Stream end tag appends the
\* delimiter exactly when the stream was made as an ArrayStream, and goes to
\* the generic endStream otherwise.
C15_Dispatch ==
    /\ \A k \in 1..Len(open) :
          /\ open[k].tag = "Array" => open[k].cls = "array.Array"
          /\ open[k].tag = "Stream" =>
                /\ open[k].cls = "array.ArrayStream" <=> OpenedUnder(k) = "Array"
                /\ open[k].cls = "ligolw.Stream" <=> OpenedUnder(k) /= "Array"
    /\ lastEnd /= None =>
          /\ lastEnd.how = "appendData" <=> lastEnd.cls = "array.ArrayStream"
          /\ lastEnd.how = "ligolw.endStream" <=> lastEnd.cls = "ligolw.Stream"

\* C15 witness: inside LIGO_LW the Stream of an Array has ended through
\* appendData and the Stream of a Table is open as a generic Stream.
C15_Witness ==
    /\ Len(open) = 3 /\ open[2].tag = "Table" /\ open[3].cls = "ligolw.Stream"
    /\ lastEnd = [cls |-> "array.ArrayStream", how |-> "appendData"]

----------------------------------------------------------------------------
(* Array names, under SpecNames *)

\* the segments are an optional prefix, a name and the suffix "array"
Conventional(segs) ==
    /\ Len(segs) \in {2, 3}
    /\ segs[Len(segs)] = <<"a", "r", "r", "a", "y">>
    /\ \A k \in 1..(Len(segs) - 1) : IsWord(segs[k])

\* C16: StripArrayName gives the segment before the suffix for a name made
\* of an optional prefix, a name and the suffix "array", and every other
\* name unchanged; CompareArrayNames is 0 exactly when the two stripped
\* names are equal, so "p:x:array", "x:array" and "x" compare equal; and
\* stripping a stripped name changes nothing.
C16_Names ==
    names /= None =>
        /\ Conventional(names.segs) =>
              names.stripped1 = names.segs[Len(names.segs) - 1]
        /\ ~Conventional(names.segs) => names.stripped1 = names.name1
        /\ names.cmp = 0 <=> names.stripped1 = names.stripped2
        /\ (/\ names.name1 = <<"p", ":", "x", ":", "a", "r", "r", "a", "y">>
            /\ names.name2 \in {<<"x", ":", "a", "r", "r", "a", "y">>, <<"x">>})
              => names.cmp = 0
        /\ names.again = names.stripped1

\* C16 witness: "p:x:array" was compared with "x".
C16_Witness ==
    /\ names /= None
    /\ names.name1 = <<"p", ":", "x", ":", "a", "r", "r", "a", "y">>
    /\ names.name2 = <<"x">>
    /\ names.stripped1 = <<"x">> /\ names.cmp = 0

----------------------------------------------------------------------------
(* The sequencers of the parse and of the write pass, under Spec *)

\* a sequencer is exhausted or stands at a valid index of its shape
InRange(ix) ==
    \/ ix.stop
    \/ /\ Len(ix.index) = Len(ix.shape)
       /\ \A p \in 1..Len(ix.shape) : 0 <= ix.index[p] /\ ix.index[p] < ix.shape[p]

\* an index has one entry per dimension of the shape, each within its size
ValidIndex(i, shape) ==
    /\ DOMAIN i = 1..Len(shape)
    /\ \A p \in 1..Len(shape) : 0 <= i[p] /\ i[p] < shape[p]

\* C17: the cursor of a node is exhausted or stands at a valid index of the
\* Buffer's shape, and so does the sequencer of a write pass after any
\* number of next calls; every index either of them hands out has one entry
\* per dimension, each within its size, so every position appendData stores
\* at and every position write reads is a position of the Buffer.
C17_IndexBounds ==
    /\ []((node = "attached" /\ index /= None) =>
            (InRange(index) /\ index.shape = array.shape))
    /\ []((node = "attached" /\ array /= None) =>
            \A k \in 0..Product(array.shape) :
                LET w == AdvanceBy(IndexIterInit(array.shape), k)
                    n == IndexIterNext(w)
                IN /\ InRange(w)
                   /\ ~n.raised => (ValidIndex(n.result, array.shape)
                                    /\ n.result \in DOMAIN array.data))
    /\ [][AppendStep =>
            LET cursor == IF index = None THEN IndexIterInit(ReversedDims) ELSE index
            IN \A i \in Handed(cursor, lastYield') :
                  ValidIndex(i, array'.shape) /\ i \in DOMAIN array'.data]_vars

\* C17 witness: the cursor of a Shape (2,3) Buffer has carried twice and
\* stands at the fifth index, four values stored.
C17_Witness ==
    /\ Parsing /\ array.shape = <<2, 3>> /\ ~index.stop
    /\ index.index = <<0, 2>>
    /\ toks = <<IntTok(1), IntTok(4), IntTok(2), IntTok(5)>>

----------------------------------------------------------------------------
(* The write pass and the parse pass, under Spec *)

\* the indent argument of the write call that made a file
IndentOf(file) == SubSeq(file, 1, (CHOOSE k \in 1..Len(file) : file[k] = "<Stream>") - 1)

\* C18: a write call leaves the Buffer, the cursor of the node and the text
\* pending in the tokenizer as they were and emits every value of the Buffer
\* from the first index on, wherever the cursor of the node stands; a write
\* call on a node whose latest written file was made from the same Buffer
\* with the same indent leaves that file as it was; and on a node that was
\* written between two appendData calls every token, those drawn after the
\* write included, sits at its own odometer index with the cursor at the
\* next.
C18_WriteFrame ==
    /\ [][(out' /= out \/ written' /= written) =>
            /\ array' = array /\ index' = index /\ tokbuf' = tokbuf
            /\ toks' = toks /\ err' = err
            /\ written' = array
            /\ AllHaveText(array, PyType(atype))
            /\ out' = ExpectedFile(array, delim, IndentOf(out'), PyType(atype))
            /\ (out /= <<>> /\ written = array /\ IndentOf(out') = IndentOf(out))
                  => out' = out]_vars
    /\ []((Parsing /\ origin = "parsed" /\ out /= <<>> /\ AllPositive(array.shape)) =>
            /\ StoredInOrder
            /\ index.stop <=> Len(toks) >= Product(array.shape)
            /\ ~index.stop => index.index = Odometer(array.shape, Len(toks)))

\* C18 witness: a Shape (2,2) node was written when two values were stored,
\* and the third value, drawn by a later appendData call, sits at the third
\* index.
C18_Witness ==
    /\ Parsing /\ origin = "parsed" /\ ~ended /\ err = "ok"
    /\ array.shape = <<2, 2>> /\ out /= <<>> /\ written /= array
    /\ written.data[<<1, 0>>].ip = 2 /\ written.data[<<0, 1>>].ip = 0
    /\ toks = <<IntTok(1), IntTok(2), IntTok(3)>>
    /\ array.data[<<0, 1>>].ip = 3 /\ index.index = <<1, 1>>

----------------------------------------------------------------------------
(* Exhaustion and overflow, under Spec *)

\* the first product(Shape) tokens are values
FirstTokensAreValues ==
    \A k \in 1..Product(array.shape) : k <= Len(toks) => toks[k] /= None

\* C19: an exhausted cursor signals exhaustion on every next call, hands out
\* no index and stays exhausted; when appendData raises ArrayOverflow the
\* first product(Shape) tokens, values all, sit in the Buffer in odometer
\* order, those of the failing call included; and every appendData call on
\* an exhausted cursor leaves the Buffer as it was and, when it draws at
\* least one token, raises ArrayOverflow.
C19_Permanent ==
    /\ []((node = "attached" /\ index /= None /\ index.stop) =>
            /\ IndexIterNext(index).raised
            /\ IndexIterNext(index).it = index)
    /\ [][(node = "attached" /\ node' = "attached" /\ index /= None /\ index.stop
              /\ index' /= None) => index' = index]_vars
    /\ []((Parsing /\ err = "ElementError" /\ AllPositive(array.shape)
              /\ FirstTokensAreValues) =>
            /\ Len(toks) > Product(array.shape)
            /\ \A k \in 1..Product(array.shape) :
                  array.data[Odometer(array.shape, k - 1)] = toks[k].v)
    /\ [][(AppendStep /\ index /= None /\ index.stop) =>
            /\ array' = array
            /\ lastYield' > 0 => err' = "ElementError"]_vars

\* C19 witness: a Shape (1) Buffer overflowed on its second value, and a
\* later call that drew one more token raised ArrayOverflow again with the
\* first value still in place.
C19_Witness ==
    /\ Parsing /\ array.shape = <<1>> /\ failed /\ err = "ElementError"
    /\ fed = <<"1", ",", "1", ",", "1", ",">> /\ lastYield = 1 /\ Len(toks) = 3
    /\ array.data[<<0>>].ip = 1 /\ index.stop

----------------------------------------------------------------------------
(* Arrays without dimensions, under Spec *)

\* C20: for an Array without Dim children the shape is empty; a sequencer
\* over it hands out the empty index once and is exhausted from then on; the
\* parse stores the first value at the empty index and raises ArrayOverflow
\* exactly in the calls that draw a token beyond the first; write emits the
\* one value of such an array between the tag lines, with no delimiter.
C20_ZeroDim ==
    /\ (Parsing /\ dims = <<>>) =>
          /\ array.shape = <<>> /\ DOMAIN array.data = {<<>>}
          /\ Handed(IndexIterInit(array.shape), 2) = {<<>>}
          /\ ~IndexIterInit(array.shape).stop
          /\ AdvanceBy(IndexIterInit(array.shape), 1).stop
          /\ index.stop <=> Len(toks) >= 1
          /\ Len(toks) >= 1 => array.data[<<>>] = toks[1].v
          /\ Len(toks) = 1 => err /= "ElementError"
          /\ err = "ElementError" <=> (lastYield > 0 /\ Len(toks) >= 2)
    /\ (out /= <<>> /\ written.shape = <<>>) =>
          /\ HasText(written.data[<<>>], PyType(atype))
          /\ out = OutIndent \o <<"<Stream>", "\n">> \o OutIndent \o Indent
                   \o ElementText(written.data[<<>>], PyType(atype))
                   \o <<"\n">> \o OutIndent \o <<"</Stream>", "\n">>
          /\ NumDelims(StreamText(out), delim) = 0

\* C20 witness: an Array without Dim children took the value 1 and raised
\* ArrayOverflow on a second value.
C20_Witness ==
    /\ Parsing /\ dims = <<>> /\ array.shape = <<>>
    /\ toks = <<IntTok(1), IntTok(1)>> /\ err = "ElementError"
    /\ array.data[<<>>].ip = 1 /\ index.stop

====
